---- MODULE Spec2Model ----
(***************************************************************************)
(* Model of baddoctor.py: a Streamlit script that scans an uploaded PDF    *)
(* for pages matching keyword patterns and caches per-page artifacts in    *)
(* st.session_state.  One behaviour is one browser session: a sequence of  *)
(* script runs (upload, remove, clear button, plain rerun, form submit).   *)
(* A submit run is split at the page loop of find_pages_with_keywords and  *)
(* at the dict comprehension that builds page_files, because an exception  *)
(* can leave the session between those steps.                              *)
(***************************************************************************)
EXTENDS Integers, Sequences, FiniteSets, TLC

\* ------------------------------------------------------------------ bounds
\* pages of a document scanned on its own
MaxScanPages == 3
\* pages of a document uploaded in a session of many runs
MaxPages == 2
\* characters of the pattern text area
MaxPatLen == 3

\* ------------------------------------------------------- optional values
None == <<>>
Some(v) == <<v>>

\* ------------------------------------------------------------ documents
\* A page as the two external libraries see it: what page.extract_text()
\* does, what convert_from_bytes + image_to_string do at the OCR dpi and
\* what convert_from_bytes does at the preview dpi.
Page(nk, nt, ok, ot, pv) ==
    [native |-> [kind |-> nk, text |-> nt],
     ocr |-> [ok |-> ok, text |-> ot],
     preview |-> pv]

\* text layer "a", OCR reads "A": both sources match pattern a
PBoth == Page("text", <<"a">>, TRUE, <<"A">>, TRUE)
\* text layer "ba", OCR misreads the page as "b"
PNatOnly == Page("text", <<"b", "a">>, TRUE, <<"b">>, TRUE)
\* scanned page: extract_text() returns None, OCR reads "bA"
POcrOnly == Page("none", <<>>, TRUE, <<"b", "A">>, TRUE)
\* text layer "b", rasterization for OCR raises, preview works
POcrFail == Page("text", <<"b">>, FALSE, <<>>, TRUE)
\* text layer "a", every rasterization raises (poppler missing)
PNoRaster == Page("text", <<"a">>, FALSE, <<>>, FALSE)
\* page.extract_text() raises
PBad == Page("raise", <<>>, TRUE, <<"a">>, TRUE)

PageKinds == {PBoth, PNatOnly, POcrOnly, POcrFail, PNoRaster, PBad}

RECURSIVE SeqsUpTo(_, _)
SeqsUpTo(S, n) ==
    IF n = 0 THEN {<<>>}
    ELSE LET shorter == SeqsUpTo(S, n - 1)
         IN  shorter \cup {Append(s, x) : s \in {t \in shorter : Len(t) = n - 1}, x \in S}

Names == {"g.pdf"}
Files == [name : Names, pages : SeqsUpTo(PageKinds, MaxScanPages)]

\* The files a session uploads: the page kinds that differ in how a whole
\* run ends (a page found by OCR only, a text page that exports with OCR
\* unavailable and raises in the preview otherwise, a page the scan raises on).
SessionPageKinds == {POcrOnly, PNoRaster, PBad}
SessionFiles == [name : Names, pages : SeqsUpTo(SessionPageKinds, MaxPages)]

\* name.rsplit(".pdf", 1)[0]
BaseName(name) == IF name = "g.pdf" THEN "g" ELSE name

\* hashlib.md5(bytes).hexdigest(): depends on the bytes only, not on the
\* file name; collisions are not modelled.
md5(pages) == [hexdigest |-> pages]

\* ------------------------------------------------------------- patterns
PatChars == {" ", "a", "\n"}
PatternTexts == SeqsUpTo(PatChars, MaxPatLen)

RECURSIVE SplitLines(_)
SplitLines(s) ==
    IF s = <<>> THEN <<>>
    ELSE LET nl == {k \in 1..Len(s) : s[k] = "\n"}
         IN  IF nl = {} THEN <<s>>
             ELSE LET k == CHOOSE x \in nl : \A y \in nl : x <= y
                  IN  <<SubSeq(s, 1, k - 1)>> \o SplitLines(SubSeq(s, k + 1, Len(s)))

RECURSIVE Strip(_)
Strip(s) ==
    IF s = <<>> THEN s
    ELSE IF s[1] = " " THEN Strip(Tail(s))
    ELSE IF s[Len(s)] = " " THEN Strip(SubSeq(s, 1, Len(s) - 1))
    ELSE s

NonBlank(line) == Strip(line) # <<>>

\* [p.strip() for p in (pattern_text or "").splitlines() if p.strip()]
ParsePatterns(pattern_text) ==
    LET kept == SelectSeq(SplitLines(pattern_text), NonBlank)
    IN  [k \in 1..Len(kept) |-> Strip(kept[k])]

Lower(c) == IF c = "A" THEN "a" ELSE c

\* re.compile(p, flags=re.IGNORECASE).search(text) for a literal pattern
Search(pat, text) ==
    \E k \in 0..(Len(text) - Len(pat)) :
        \A m \in 1..Len(pat) : Lower(text[k + m]) = Lower(pat[m])

\* any(c.search(text) for c in compiled)
AnyMatch(patterns, text) == \E k \in 1..Len(patterns) : Search(patterns[k], text)

\* ---------------------------------------------------------------- state
VARIABLES
    OCR_AVAILABLE,  \* module flag set by the guarded import
    pdf_file,       \* st.session_state["pdf_file"]: None or Some(file)
    session_state,  \* the five result keys of st.session_state
    pc,             \* position of the script: idle, scan, scanned, export
    run,            \* what triggered the latest script run
    outcome,        \* how the latest script run ended
    use_ocr,        \* form checkbox of the submit run
    patterns,       \* patterns of the submit run
    i,              \* loop index of find_pages_with_keywords
    hits,           \* hits of find_pages_with_keywords
    visited,        \* pages whose loop body find_pages_with_keywords entered
    j,              \* position in hit_pages of the page_files comprehension
    files,          \* the dict the comprehension has built so far
    msgs,           \* st.error / st.warning / st.info / st.success of the run
    shown,          \* pages whose text and download button the run rendered
    ocr_calls,      \* convert_from_bytes calls made by the run
    scan_invoked,   \* find_pages_with_keywords was called by the run
    exported,       \* pages export_single_page_pdf was called for by the run
    blank_input,    \* the submitted pattern text held only blanks and newlines
    written,        \* result keys written by the latest submit that passed validation
    changed         \* the document was replaced since results were stored, no submit since

vars == <<OCR_AVAILABLE, pdf_file, session_state, pc, run, outcome, use_ocr, patterns, i, hits,
          visited, j, files, msgs, shown, ocr_calls, scan_invoked, exported,
          blank_input, written, changed>>

ResultKeys == {"hit_pages", "page_files", "base_filename", "patterns_saved", "file_sig"}

EmptySession == [k \in ResultKeys |-> None]

\* -------------------------------------------------------- _clear_results
ClearedKeysStale == {"base_filename", "patterns_saved", "file_sig"}
ClearedKeys == {"hit_pages", "page_files", "base_filename", "patterns_saved", "file_sig"}

clear_results(s) == [k \in ResultKeys |-> IF k \in ClearedKeys THEN None ELSE s[k]]

\* ------------------------------------------------ find_pages_with_keywords
\* page.extract_text() or ""
NativeText(page) == IF page.native.kind = "text" THEN page.native.text ELSE <<>>

OcrEnabledIgnoringFlag(uo, avail) == uo
\* use_ocr and OCR_AVAILABLE
OcrEnabled(uo, avail) == uo /\ avail

NativeHitFallsThrough == FALSE
\* hits.append(i); continue
NativeHitSkipsOcr == TRUE

OcrScanTextTypo(page) == NativeText(page)
\* the ocr_text the OCR branch searches
OcrScanText(page) == page.ocr.text

OcrErrorPropagates == FALSE
\* except Exception: pass
OcrErrorSwallowed == TRUE

\* One iteration of the page loop for page index idx.
find_pages_step(page, idx, h, pats, uo, avail) ==
    IF page.native.kind = "raise"
    THEN [raised |-> TRUE, hits |-> h, calls |-> 0]
    ELSE LET nat == AnyMatch(pats, NativeText(page))
             h1 == IF nat THEN Append(h, idx) ELSE h
             goOcr == (~nat \/ ~NativeHitSkipsOcr) /\ OcrEnabled(uo, avail)
         IN  IF ~goOcr THEN [raised |-> FALSE, hits |-> h1, calls |-> 0]
             ELSE IF ~page.ocr.ok
                  THEN [raised |-> ~OcrErrorSwallowed, hits |-> h1, calls |-> 1]
                  ELSE [raised |-> FALSE,
                        hits |-> IF AnyMatch(pats, OcrScanText(page))
                                 THEN Append(h1, idx) ELSE h1,
                        calls |-> 1]

\* -------------------------------------------------------------- exporters
\* export_single_page_pdf: a document holding the one page
export_single_page_pdf(pages, p) == <<pages[p + 1]>>

\* extract_page_text: OCR text replaces the native text when OCR is on and works
extract_page_text(page, uo, avail) ==
    IF OcrEnabled(uo, avail)
    THEN [text |-> IF page.ocr.ok THEN page.ocr.text ELSE NativeText(page), calls |-> 1]
    ELSE [text |-> NativeText(page), calls |-> 0]

\* page_image_bytes(...) if OCR_AVAILABLE else None
page_image_bytes(page, p, avail) ==
    IF ~avail THEN [raised |-> FALSE, img |-> None, calls |-> 0]
    ELSE IF ~page.preview THEN [raised |-> TRUE, img |-> None, calls |-> 1]
    ELSE [raised |-> FALSE, img |-> Some([png |-> p]), calls |-> 1]

\* ----------------------------------------------------------------- render
RECURSIVE RenderPages(_, _)
\* for p in hit_pages: ... page_files[p] ...; stops at the first missing bundle
RenderPages(hp, pf) ==
    IF hp = <<>> THEN [shown |-> <<>>, crash |-> FALSE]
    ELSE IF pf = None \/ Head(hp) \notin DOMAIN pf[1]
         THEN [shown |-> <<>>, crash |-> TRUE]
         ELSE LET rest == RenderPages(Tail(hp), pf)
              IN  [shown |-> <<Head(hp)>> \o rest.shown, crash |-> rest.crash]

\* lines 124-157 of the script
Render(s, pf) ==
    LET cur_sig == IF pf = None THEN None ELSE Some(md5(pf[1].pages))
    IN  IF cur_sig # None /\ s.file_sig # None /\ cur_sig # s.file_sig
        THEN [msgs |-> {"newfile"}, shown |-> <<>>, crash |-> FALSE]
        ELSE IF s.hit_pages # None /\ s.hit_pages[1] # <<>>
             THEN LET r == RenderPages(s.hit_pages[1], s.page_files)
                  IN  [msgs |-> {"success"}, shown |-> r.shown, crash |-> r.crash]
             ELSE [msgs |-> {}, shown |-> <<>>, crash |-> FALSE]

RenderOutcome(r) == IF r.crash THEN "render_raised" ELSE "done"

\* ------------------------------------------------------------------- runs
Init ==
    /\ OCR_AVAILABLE \in BOOLEAN
    /\ pdf_file = None
    /\ session_state = EmptySession
    /\ pc = "idle"
    /\ run = "none"
    /\ outcome = "none"
    /\ use_ocr = FALSE
    /\ patterns = <<>>
    /\ i = 0
    /\ hits = <<>>
    /\ visited = {}
    /\ j = 0
    /\ files = <<>>
    /\ msgs = {}
    /\ shown = <<>>
    /\ ocr_calls = 0
    /\ scan_invoked = FALSE
    /\ exported = {}
    /\ blank_input = FALSE
    /\ written = {}
    /\ changed = "no"

\* a run that is not a submit has no submit-local state
NoSubmitLocals ==
    /\ use_ocr' = FALSE
    /\ patterns' = <<>>
    /\ i' = 0
    /\ hits' = <<>>
    /\ visited' = {}
    /\ j' = 0
    /\ files' = <<>>
    /\ ocr_calls' = 0
    /\ scan_invoked' = FALSE
    /\ exported' = {}
    /\ blank_input' = FALSE

\* A script run with submitted = False: only the render section does anything.
PlainRun(kind, s, pf) ==
    LET r == Render(s, pf)
    IN  /\ session_state' = s
        /\ pdf_file' = pf
        /\ run' = kind
        /\ msgs' = r.msgs
        /\ shown' = r.shown
        /\ outcome' = RenderOutcome(r)
        /\ pc' = "idle"
        /\ NoSubmitLocals
        /\ UNCHANGED OCR_AVAILABLE

\* The user picks another file: on_change=_clear_results, then the script runs.
Upload(f) ==
    /\ pc = "idle"
    /\ pdf_file # Some(f)
    /\ PlainRun("upload", clear_results(session_state), Some(f))
    /\ written' = written \ ClearedKeys
    /\ changed' = IF session_state.hit_pages # None /\ session_state.file_sig # Some(md5(f.pages))
                  THEN "replaced" ELSE changed

\* The user removes the file from the uploader: on_change fires as well.
RemoveFile ==
    /\ pc = "idle"
    /\ pdf_file # None
    /\ PlainRun("remove", clear_results(session_state), None)
    /\ written' = written \ ClearedKeys
    /\ changed' = IF session_state.hit_pages # None THEN "removed" ELSE changed

\* st.button("清除結果"): _clear_results(); st.experimental_rerun()
ClearButton ==
    /\ pc = "idle"
    /\ PlainRun("clear", clear_results(session_state), pdf_file)
    /\ written' = written \ ClearedKeys
    /\ UNCHANGED changed

\* Any other widget interaction (a download button, an expander) reruns the script.
Rerun ==
    /\ pc = "idle"
    /\ PlainRun("rerun", session_state, pdf_file)
    /\ UNCHANGED <<written, changed>>

AllBlank(pattern_text) == \A k \in 1..Len(pattern_text) : pattern_text[k] \in {" ", "\n"}

ValidationFallsThrough == FALSE
\* st.error(...); st.stop()
ValidationStops == TRUE

\* if submitted: lines 93-106 up to the call of find_pages_with_keywords
SubmitStart(pattern_text, uo) ==
    LET pats == ParsePatterns(pattern_text)
        warn == IF uo /\ ~OCR_AVAILABLE THEN {"warn_ocr"} ELSE {}
    IN  /\ pc = "idle"
        /\ run' = "submit"
        /\ use_ocr' = uo
        /\ patterns' = pats
        /\ blank_input' = AllBlank(pattern_text)
        /\ changed' = "no"
        /\ shown' = <<>>
        /\ i' = 0
        /\ hits' = <<>>
        /\ visited' = {}
        /\ j' = 0
        /\ files' = <<>>
        /\ ocr_calls' = 0
        /\ exported' = {}
        /\ UNCHANGED <<OCR_AVAILABLE, pdf_file>>
        /\ IF pdf_file = None
           THEN /\ msgs' = {"err_nofile"}
                /\ outcome' = IF ValidationStops THEN "stopped" ELSE "submit_raised"
                /\ pc' = "idle"
                /\ scan_invoked' = FALSE
                /\ UNCHANGED <<session_state, written>>
           ELSE IF pats = <<>> /\ ValidationStops
           THEN /\ msgs' = warn \cup {"err_nopat"}
                /\ outcome' = "stopped"
                /\ pc' = "idle"
                /\ scan_invoked' = FALSE
                /\ UNCHANGED <<session_state, written>>
           ELSE /\ msgs' = warn \cup (IF pats = <<>> THEN {"err_nopat"} ELSE {})
                /\ outcome' = "running"
                /\ pc' = "scan"
                /\ scan_invoked' = TRUE
                /\ session_state' = [session_state EXCEPT !.file_sig = Some(md5(pdf_file[1].pages))]
                /\ written' = {"file_sig"}

\* one iteration of `for i, page in enumerate(reader.pages)`
ScanPage ==
    /\ pc = "scan"
    /\ i < Len(pdf_file[1].pages)
    /\ LET r == find_pages_step(pdf_file[1].pages[i + 1], i, hits, patterns, use_ocr, OCR_AVAILABLE)
       IN  /\ visited' = visited \cup {i}
           /\ ocr_calls' = ocr_calls + r.calls
           /\ IF r.raised
              THEN /\ pc' = "idle"
                   /\ outcome' = "scan_raised"
                   /\ UNCHANGED <<i, hits>>
              ELSE /\ pc' = "scan"
                   /\ i' = i + 1
                   /\ hits' = r.hits
                   /\ UNCHANGED outcome
    /\ UNCHANGED <<OCR_AVAILABLE, pdf_file, session_state, run, use_ocr, patterns, j, files, msgs,
                   shown, scan_invoked, exported, blank_input, written, changed>>

\* return hits
ScanReturn ==
    /\ pc = "scan"
    /\ i = Len(pdf_file[1].pages)
    /\ pc' = "scanned"
    /\ UNCHANGED <<OCR_AVAILABLE, pdf_file, session_state, run, outcome, use_ocr, patterns, i, hits,
                   visited, j, files, msgs, shown, ocr_calls, scan_invoked, exported,
                   blank_input, written, changed>>

\* lines 108-113: the not-found branch runs on into the render section
PostScan ==
    /\ pc = "scanned"
    /\ IF hits = <<>>
       THEN LET r == Render(session_state, pdf_file)
            IN  /\ msgs' = msgs \cup {"notfound"} \cup r.msgs
                /\ shown' = r.shown
                /\ outcome' = RenderOutcome(r)
                /\ pc' = "idle"
                /\ UNCHANGED <<session_state, j, written>>
       ELSE /\ session_state' = [session_state EXCEPT !.hit_pages = Some(hits),
                                !.base_filename = Some(BaseName(pdf_file[1].name)),
                                !.patterns_saved = Some(patterns)]
            /\ written' = written \cup {"hit_pages", "base_filename", "patterns_saved"}
            /\ pc' = "export"
            /\ j' = 1
            /\ UNCHANGED <<msgs, shown, outcome>>
    /\ UNCHANGED <<OCR_AVAILABLE, pdf_file, run, use_ocr, patterns, i, hits, visited, files,
                   ocr_calls, scan_invoked, exported, blank_input, changed>>

\* one entry of the page_files comprehension (lines 115-119)
ExportPage ==
    /\ pc = "export"
    /\ j <= Len(hits)
    /\ LET p == hits[j]
           page == pdf_file[1].pages[p + 1]
           t == extract_page_text(page, use_ocr, OCR_AVAILABLE)
           im == page_image_bytes(page, p, OCR_AVAILABLE)
       IN  /\ exported' = exported \cup {p}
           /\ ocr_calls' = ocr_calls + t.calls + im.calls
           /\ IF im.raised
              THEN /\ pc' = "idle"
                   /\ outcome' = "export_raised"
                   /\ UNCHANGED <<j, files>>
              ELSE /\ pc' = "export"
                   /\ j' = j + 1
                   /\ files' = (p :> [pdf |-> export_single_page_pdf(pdf_file[1].pages, p),
                                      text |-> t.text,
                                      img |-> im.img]) @@ files
                   /\ UNCHANGED outcome
    /\ UNCHANGED <<OCR_AVAILABLE, pdf_file, session_state, run, use_ocr, patterns, i, hits, visited,
                   msgs, shown, scan_invoked, blank_input, written, changed>>

\* st.session_state.page_files = {...}, then the render section
ExportDone ==
    /\ pc = "export"
    /\ j > Len(hits)
    /\ LET s == [session_state EXCEPT !.page_files = Some(files)]
           r == Render(s, pdf_file)
       IN  /\ session_state' = s
           /\ msgs' = msgs \cup r.msgs
           /\ shown' = r.shown
           /\ outcome' = RenderOutcome(r)
    /\ written' = written \cup {"page_files"}
    /\ pc' = "idle"
    /\ UNCHANGED <<OCR_AVAILABLE, pdf_file, run, use_ocr, patterns, i, hits, visited, j,
                   files, ocr_calls, scan_invoked, exported, blank_input, changed>>

Next ==
    \/ \E f \in SessionFiles : Upload(f)
    \/ RemoveFile
    \/ ClearButton
    \/ Rerun
    \/ \E pattern_text \in PatternTexts, uo \in BOOLEAN : SubmitStart(pattern_text, uo)
    \/ ScanPage
    \/ ScanReturn
    \/ PostScan
    \/ ExportPage
    \/ ExportDone

Spec == Init /\ [][Next]_vars

\* ------------------------------------------------- one scan of one document
\* The state right after a first submit has passed validation, for every
\* document, every non-empty pattern list and both settings of the checkbox.
InitScan ==
    \E f \in Files, pattern_text \in PatternTexts, uo \in BOOLEAN :
        /\ ParsePatterns(pattern_text) # <<>>
        /\ OCR_AVAILABLE \in BOOLEAN
        /\ pdf_file = Some(f)
        /\ session_state = [EmptySession EXCEPT !.file_sig = Some(md5(f.pages))]
        /\ pc = "scan"
        /\ run = "submit"
        /\ outcome = "running"
        /\ use_ocr = uo
        /\ patterns = ParsePatterns(pattern_text)
        /\ i = 0
        /\ hits = <<>>
        /\ visited = {}
        /\ j = 0
        /\ files = <<>>
        /\ msgs = IF uo /\ ~OCR_AVAILABLE THEN {"warn_ocr"} ELSE {}
        /\ shown = <<>>
        /\ ocr_calls = 0
        /\ scan_invoked = TRUE
        /\ exported = {}
        /\ blank_input = FALSE
        /\ written = {"file_sig"}
        /\ changed = "no"

NextScan ==
    \/ ScanPage
    \/ ScanReturn
    \/ PostScan
    \/ ExportPage
    \/ ExportDone

ScanSpec == InitScan /\ [][NextScan]_vars

\* ---------------------------------------------------------------- claims
Range(sq) == {sq[k] : k \in 1..Len(sq)}

StrictlyAscending(sq) == \A a, b \in 1..Len(sq) : a < b => sq[a] < sq[b]

CurPages == pdf_file[1].pages

PageIndexes == 0..(Len(CurPages) - 1)

NativeMatches(p) == AnyMatch(patterns, NativeText(CurPages[p + 1]))

OcrMatches(p) == CurPages[p + 1].ocr.ok /\ AnyMatch(patterns, CurPages[p + 1].ocr.text)

\* the pages the scan is specified to return
RefSet(uo, avail) == {p \in PageIndexes : NativeMatches(p) \/ (uo /\ avail /\ OcrMatches(p))}

\* find_pages_with_keywords has returned in this run
ScanReturned == pc \in {"scanned", "export"} \/ (pc = "idle" /\ outcome \in {"done", "render_raised", "export_raised"})

\* C1: the list find_pages_with_keywords returns is in strictly ascending
\* page order, so no page index occurs twice, whatever matched the page.
C1_HitsStrictlyAscending == pc = "scanned" => StrictlyAscending(hits)

C1_Witness ==
    /\ pc = "scanned"
    /\ use_ocr /\ OCR_AVAILABLE
    /\ Len(patterns) >= 2
    /\ Len(hits) >= 2
    /\ \E p \in Range(hits) : NativeMatches(p) /\ OcrMatches(p)

\* C2: when find_pages_with_keywords returns it has entered the loop body
\* for every page, and the pages it returns are exactly those whose native
\* text matches a pattern or (OCR on and available) whose OCR succeeds and
\* matches a pattern.
C2_HitsAreReferenceSet ==
    pc = "scanned" =>
        /\ visited = PageIndexes
        /\ Range(hits) = RefSet(use_ocr, OCR_AVAILABLE)

C2_Witness ==
    /\ pc = "scanned"
    /\ Len(CurPages) >= 2
    /\ 0 \in Range(hits)
    /\ \E p \in Range(hits) : p > 0 /\ ~NativeMatches(p)

\* the OCR attempt on page p raises: native text matched nothing, OCR is on
OcrFailsAt(p) ==
    /\ CurPages[p + 1].native.kind # "raise"
    /\ ~NativeMatches(p)
    /\ use_ocr /\ OCR_AVAILABLE
    /\ ~CurPages[p + 1].ocr.ok

\* C4: a loop iteration whose OCR attempt raises leaves hits as they were
\* and moves on to the next page, and a page whose OCR attempt raised is
\* not in the returned list.
C4_OcrFailureSwallowed ==
    /\ [](ScanReturned => \A p \in PageIndexes : OcrFailsAt(p) => p \notin Range(hits))
    /\ [][(pc = "scan" /\ i < Len(CurPages) /\ OcrFailsAt(i))
            => (pc' = "scan" /\ i' = i + 1 /\ hits' = hits)]_vars

C4_Witness ==
    /\ pc = "scanned"
    /\ \E p, q, r \in PageIndexes :
          OcrFailsAt(q) /\ p < q /\ q < r /\ p \in Range(hits) /\ r \in Range(hits)

\* C5: with OCR unavailable the run makes no rasterization call, returns the
\* pages whose native text matches and stores each page's native text and
\* no preview image, whether or not use_ocr is ticked.
C5_OcrUnavailableIsNativeOnly ==
    ~OCR_AVAILABLE =>
        /\ ocr_calls = 0
        /\ ScanReturned => (StrictlyAscending(hits) /\ Range(hits) = RefSet(FALSE, FALSE))
        /\ \A p \in DOMAIN files :
              files[p].text = NativeText(CurPages[p + 1]) /\ files[p].img = None
        /\ session_state.page_files # None => session_state.page_files[1] = files /\ DOMAIN files = Range(hits)

C5_Witness ==
    /\ ~OCR_AVAILABLE /\ use_ocr
    /\ pc = "idle" /\ outcome = "done"
    /\ session_state.page_files # None
    /\ "warn_ocr" \in msgs
    /\ \E p \in PageIndexes : p \notin Range(hits) /\ OcrMatches(p)
    /\ \E p \in Range(hits) : CurPages[p + 1].ocr.text # NativeText(CurPages[p + 1])

\* C3 as claimed: a page whose native text extraction raises does not abort
\* the scan, which goes on to visit every page and return.
C3_NativeFailureDoesNotAbort ==
    (scan_invoked /\ pc = "idle") => (outcome # "scan_raised" /\ visited = PageIndexes)

\* C10 as claimed: after a completed submit every stored page text is matched
\* by one of the patterns, with OCR off, and with OCR on and available for
\* the pages recorded from their native text.
C10_StoredTextMatches ==
    (run = "submit" /\ pc = "idle" /\ outcome = "done" /\ session_state.page_files # None) =>
        \A p \in Range(hits) :
            (~(use_ocr /\ OCR_AVAILABLE) \/ NativeMatches(p))
                => AnyMatch(patterns, session_state.page_files[1][p].text)

\* C6: a submit with no file, or with a pattern text that is blank after
\* trimming, shows a validation error and stops: no scan, no export, nothing
\* rendered.
C6_ValidationStopsBeforeScan ==
    (run = "submit" /\ (pdf_file = None \/ blank_input)) =>
        /\ msgs \cap {"err_nofile", "err_nopat"} # {}
        /\ pc = "idle" /\ outcome = "stopped"
        /\ ~scan_invoked
        /\ visited = {} /\ exported = {} /\ ocr_calls = 0
        /\ shown = <<>>

C6_Witness ==
    /\ run = "submit" /\ outcome = "stopped"
    /\ pdf_file # None /\ blank_input
    /\ "err_nopat" \in msgs
    /\ session_state.hit_pages # None

\* C7 as claimed: a submit whose scan finds nothing, and whose run ends
\* without an exception, shows the not-found message and no matched-page
\* results.
C7_NotFoundShowsNoResults ==
    (run = "submit" /\ pc = "idle" /\ "notfound" \in msgs /\ outcome = "done") =>
        ("success" \notin msgs /\ shown = <<>>)

\* C8: once the uploader has changed while results were stored, no run
\* before the next submit renders matched pages.
C8_OldResultsNotRendered == changed # "no" => ("success" \notin msgs /\ shown = <<>>)

C8_Witness == changed = "replaced" /\ run = "upload" /\ pdf_file # None

SubmitKeys == {"file_sig", "hit_pages", "patterns_saved", "page_files"}

\* C9 as claimed: between runs, stored non-empty hit_pages come with a
\* page_files bundle for exactly those pages, all written by one submit.
C9_CacheConsistent ==
    (pc = "idle" /\ session_state.hit_pages # None /\ session_state.hit_pages[1] # <<>>) =>
        /\ session_state.page_files # None
        /\ DOMAIN session_state.page_files[1] = Range(session_state.hit_pages[1])
        /\ SubmitKeys \subseteq written
====
